---------------------------- MODULE Spec2Model ----------------------------
(***************************************************************************)
(* A model of the lineage extraction engine of src/sql-parser.js           *)
(* (class SQLParser).  A text is a sequence of one-character strings, so   *)
(* that every regular expression of the source is modelled by what it      *)
(* matches, character by character.  One SQLParser instance is the state;  *)
(* parseQuery is run step by step in the order of its statements.          *)
(***************************************************************************)
EXTENDS Integers, Sequences, FiniteSets, TLC

(***************************************************************************)
(* Characters and character classes of the regular expressions.            *)
(***************************************************************************)

\* JavaScript null / undefined.  Texts hold one-character strings only, so
\* this value is different from every text, the empty text included.
Null == <<"null">>

LowerLetters == <<"a","b","c","d","e","f","g","h","i","j","k","l","m",
                  "n","o","p","q","r","s","t","u","v","w","x","y","z">>

UpperLetters == <<"A","B","C","D","E","F","G","H","I","J","K","L","M",
                  "N","O","P","Q","R","S","T","U","V","W","X","Y","Z">>

Digits == {"0","1","2","3","4","5","6","7","8","9"}

LowerSet == {LowerLetters[i] : i \in 1..26}

UpperSet == {UpperLetters[i] : i \in 1..26}

\* String.prototype.toUpperCase on one character; also the canonical form
\* under which the `i` flag compares characters.
UpperOf == [c \in LowerSet |-> UpperLetters[CHOOSE i \in 1..26 : LowerLetters[i] = c]]

ToUpper(c) == IF c \in LowerSet THEN UpperOf[c] ELSE c

toUpperCase(s) == [i \in 1..Len(s) |-> ToUpper(s[i])]

\* \s of the regular expressions (the members that occur in the inputs).
WhiteSpace == {" ", "\t", "\n", "\r", "\f"}

\* The characters `.` does not match and before which `$` matches under /m.
LineTerminators == {"\n", "\r"}

\* \w
WordChars == LowerSet \cup UpperSet \cup Digits \cup {"_"}

IsSpace(c) == c \in WhiteSpace

IsWord(c) == c \in WordChars

\* The keyword kw (given in upper case) stands at position i of q, compared
\* without regard to case.
MatchAt(q, i, kw) ==
    /\ i >= 1
    /\ i + Len(kw) - 1 <= Len(q)
    /\ \A k \in 1..Len(kw) : ToUpper(q[i + k - 1]) = kw[k]

\* The least element of a non-empty set of positions.
Least(S) == CHOOSE x \in S : \A y \in S : x <= y

\* Where a greedy run of the characters of the set chars, starting at
\* position i of q, ends: the first position >= i whose character is not in
\* chars (Len(q)+1 if there is none).
SkipIn(q, i, chars) ==
    IF i > Len(q) THEN i
    ELSE CHOOSE j \in i..(Len(q) + 1) :
           /\ j > Len(q) \/ q[j] \notin chars
           /\ \A k \in i..(j - 1) : q[k] \in chars

\* The same for a run of characters that are not in chars.
SkipNotIn(q, i, chars) ==
    IF i > Len(q) THEN i
    ELSE CHOOSE j \in i..(Len(q) + 1) :
           /\ j > Len(q) \/ q[j] \in chars
           /\ \A k \in i..(j - 1) : q[k] \notin chars

\* Where a greedy \s* or \s+ starting at i ends.
SkipSpace(q, i) == SkipIn(q, i, WhiteSpace)

\* Where a greedy [^\s]+ starting at i ends.
SkipNonSpace(q, i) == SkipNotIn(q, i, WhiteSpace)

\* Where a greedy \w+ starting at i ends.
SkipWord(q, i) == SkipIn(q, i, WordChars)

\* String.prototype.trim
trim(s) ==
    LET first == SkipSpace(s, 1)
        lastIdx == IF first > Len(s) THEN 0
                   ELSE CHOOSE j \in first..Len(s) :
                          /\ ~IsSpace(s[j])
                          /\ \A k \in (j + 1)..Len(s) : IsSpace(s[k])
    IN  IF first > Len(s) THEN << >> ELSE SubSeq(s, first, lastIdx)

\* String.prototype.includes for one character
includes(s, c) == \E i \in 1..Len(s) : s[i] = c

(***************************************************************************)
(* cleanQuery: the Normalizer.                                             *)
(***************************************************************************)

\* .replace(/--.*$/gm, ''): from each `--` up to, not including, the next
\* line terminator (or the end of the text).
SkipLine(q, i) == SkipNotIn(q, i, LineTerminators)

\* The replacement from position i on: one step for each comment.
RECURSIVE removeLineComments(_, _)
removeLineComments(q, i) ==
    LET starts == {j \in i..(Len(q) - 1) : q[j] = "-" /\ q[j + 1] = "-"}
        j == Least(starts)
    IN  IF starts = {} THEN SubSeq(q, i, Len(q))
        ELSE SubSeq(q, i, j - 1) \o removeLineComments(q, SkipLine(q, j))

\* .replace(/\/\*[\s\S]*?\*\//g, ''): from each `/*` through the first `*/`
\* that starts at least two characters later; an unterminated `/*` stays.
BlockEnd(q, i) ==
    LET ends == {k \in (i + 2)..(Len(q) - 1) : q[k] = "*" /\ q[k + 1] = "/"}
    IN  IF ends = {} THEN 0 ELSE Least(ends)

\* The replacement from position i on: one step for each comment.
RECURSIVE removeBlockComments(_, _)
removeBlockComments(q, i) ==
    LET starts == {j \in i..(Len(q) - 1) :
                     q[j] = "/" /\ q[j + 1] = "*" /\ BlockEnd(q, j) # 0}
        j == Least(starts)
    IN  IF starts = {} THEN SubSeq(q, i, Len(q))
        ELSE SubSeq(q, i, j - 1) \o removeBlockComments(q, BlockEnd(q, j) + 2)

\* .replace(/\s+/g, ' '): every maximal run of white space becomes one space,
\* that is, the first character of a run becomes a space and the others go.
\* The positions lo..hi of q, replaced.
RECURSIVE normalizeWhitespace(_, _, _)
normalizeWhitespace(q, lo, hi) ==
    IF lo > hi THEN << >>
    ELSE IF lo = hi
    THEN IF ~IsSpace(q[lo]) THEN <<q[lo]>>
         ELSE IF lo = 1 \/ ~IsSpace(q[lo - 1]) THEN <<" ">>
         ELSE << >>
    ELSE LET mid == (lo + hi) \div 2
         IN  normalizeWhitespace(q, lo, mid) \o normalizeWhitespace(q, mid + 1, hi)

cleanQuery(query) ==
    LET uncommented == removeBlockComments(removeLineComments(query, 1), 1)
    IN  trim(normalizeWhitespace(uncommented, 1, Len(uncommented)))

(***************************************************************************)
(* The state of one SQLParser instance, as a record the passes transform:  *)
(* tables and columns are the Maps in insertion order, relationships the   *)
(* array.  raised tells that a step threw; log records the registration    *)
(* calls of the current parseQuery call, in order.                         *)
(***************************************************************************)

\* constructor()
NewParser ==
    [tables |-> << >>, relationships |-> << >>, columns |-> << >>,
     log |-> << >>, raised |-> FALSE]

\* Map.prototype.has on a Map kept as the sequence of its values.
HasId(entries, id) == \E i \in 1..Len(entries) : entries[i].id = id

IndexOfId(entries, id) == CHOOSE i \in 1..Len(entries) : entries[i].id = id

\* The characters name.replace(/[..]/g, '') deletes: the double quote, the
\* single quote and the two square brackets.  The class of the source holds
\* the backquote as well; it is left out here and in the inputs, since the
\* lexer of the TLA+ tools does not read a backquote inside a string.
QuoteChars == {"\"", "'", "[", "]"}

\* The characters lo..hi of name that the replacement keeps.
RECURSIVE keepUnquoted(_, _, _)
keepUnquoted(name, lo, hi) ==
    IF lo > hi THEN << >>
    ELSE IF lo = hi
    THEN IF name[lo] \in QuoteChars THEN << >> ELSE <<name[lo]>>
    ELSE LET mid == (lo + hi) \div 2
         IN  keepUnquoted(name, lo, mid) \o keepUnquoted(name, mid + 1, hi)

stripQuotes(name) == keepUnquoted(name, 1, Len(name))

\* alias || cleanName: null, undefined and the empty string are falsy.
IsFalsy(v) == v = Null \/ v = << >>

\* addTable without the has() test: the entry is written every time.
addTable_LastWins(st, name, alias, type) ==
    LET cleanName == stripQuotes(name)
        tableId   == IF IsFalsy(alias) THEN cleanName ELSE alias
        has       == HasId(st.tables, tableId)
        entry     == [id |-> tableId, name |-> cleanName, alias |-> alias,
                      type |-> type, columns |-> << >>]
        newTables == IF has
                     THEN [st.tables EXCEPT ![IndexOfId(st.tables, tableId)] = entry]
                     ELSE Append(st.tables, entry)
    IN  [st EXCEPT !.tables = newTables,
                   !.log = Append(@, [op |-> "addTable", entry |-> entry,
                                      existed |-> has,
                                      changed |-> newTables # st.tables])]

addTable(st, name, alias, type) ==
    LET cleanName == stripQuotes(name)
        tableId   == IF IsFalsy(alias) THEN cleanName ELSE alias
        has       == HasId(st.tables, tableId)
        entry     == [id |-> tableId, name |-> cleanName, alias |-> alias,
                      type |-> type, columns |-> << >>]
        newTables == IF has THEN st.tables ELSE Append(st.tables, entry)
    IN  [st EXCEPT !.tables = newTables,
                   !.log = Append(@, [op |-> "addTable", entry |-> entry,
                                      existed |-> has,
                                      changed |-> newTables # st.tables])]

\* addColumn without the test for the name in the list of the table.
addColumn_PushAlways(st, tableRef, columnName, alias) ==
    LET columnId == tableRef \o <<".">> \o columnName
        has      == HasId(st.columns, columnId)
        entry    == [id |-> columnId, table |-> tableRef, name |-> columnName,
                     alias |-> alias, type |-> "column"]
        newCols  == IF has THEN st.columns ELSE Append(st.columns, entry)
        owned    == HasId(st.tables, tableRef)
        ti       == IndexOfId(st.tables, tableRef)
        newTables == IF owned
                     THEN [st.tables EXCEPT ![ti].columns =
                             Append(@, [name |-> columnName, alias |-> alias])]
                     ELSE st.tables
    IN  [st EXCEPT !.columns = newCols,
                   !.tables = newTables,
                   !.log = Append(@, [op |-> "addColumn", entry |-> entry,
                                      existed |-> has,
                                      changed |-> newCols # st.columns
                                                  \/ newTables # st.tables])]

addColumn(st, tableRef, columnName, alias) ==
    LET columnId == tableRef \o <<".">> \o columnName
        has      == HasId(st.columns, columnId)
        entry    == [id |-> columnId, table |-> tableRef, name |-> columnName,
                     alias |-> alias, type |-> "column"]
        newCols  == IF has THEN st.columns ELSE Append(st.columns, entry)
        owned    == HasId(st.tables, tableRef)
        ti       == IndexOfId(st.tables, tableRef)
        known    == \E k \in 1..Len(st.tables[ti].columns) :
                       st.tables[ti].columns[k].name = columnName
        newTables == IF owned /\ ~known
                     THEN [st.tables EXCEPT ![ti].columns =
                             Append(@, [name |-> columnName, alias |-> alias])]
                     ELSE st.tables
    IN  [st EXCEPT !.columns = newCols,
                   !.tables = newTables,
                   !.log = Append(@, [op |-> "addColumn", entry |-> entry,
                                      existed |-> has,
                                      changed |-> newCols # st.columns
                                                  \/ newTables # st.tables])]

\* addRelationship with a test for the id, as addTable and addColumn have.
addRelationship_Dedup(st, sourceTable, sourceColumn, targetTable, targetColumn, type) ==
    LET relId == sourceTable \o <<".">> \o sourceColumn \o <<"-",">">>
                   \o targetTable \o <<".">> \o targetColumn
    IN  IF HasId(st.relationships, relId) THEN st
        ELSE [st EXCEPT !.relationships = Append(@,
                [id |-> relId,
                 source |-> sourceTable, sourceColumn |-> sourceColumn,
                 target |-> targetTable, targetColumn |-> targetColumn,
                 type |-> type])]

addRelationship(st, sourceTable, sourceColumn, targetTable, targetColumn, type) ==
    [st EXCEPT !.relationships = Append(@,
        [id |-> sourceTable \o <<".">> \o sourceColumn \o <<"-",">">>
                  \o targetTable \o <<".">> \o targetColumn,
         source |-> sourceTable, sourceColumn |-> sourceColumn,
         target |-> targetTable, targetColumn |-> targetColumn,
         type |-> type])]

(***************************************************************************)
(* smartSplit: the Depth-Aware Splitter.                                   *)
(***************************************************************************)

\* The local `depth` of smartSplit when its loop reaches position i: one up
\* for every `(` and one down for every `)` before i.
depthAt(str, i) ==
    Cardinality({k \in 1..(i - 1) : str[k] = "("})
      - Cardinality({k \in 1..(i - 1) : str[k] = ")"})

\* The third branch without its test of depth: every delimiter cuts.
splitPoints_AnyDepth(str, delimiter) ==
    {i \in 1..Len(str) : str[i] \notin {"(", ")"} /\ str[i] = delimiter}

\* The positions at which the loop takes its third branch: the character is
\* no parenthesis, it is the delimiter, and depth is 0.  There the loop
\* pushes current.trim() and starts a new current.
splitPoints(str, delimiter) ==
    {i \in 1..Len(str) :
        /\ str[i] \notin {"(", ")"}
        /\ str[i] = delimiter
        /\ depthAt(str, i) = 0}

\* What the loop and the final push add to result from position i on, when
\* `current` is empty at i.
RECURSIVE smartSplitFrom(_, _, _)
smartSplitFrom(str, delimiter, i) ==
    LET later   == {c \in splitPoints(str, delimiter) : c >= i}
        c       == Least(later)
        current == SubSeq(str, i, Len(str))
    IN  IF later # {}
        THEN <<trim(SubSeq(str, i, c - 1))>> \o smartSplitFrom(str, delimiter, c + 1)
        ELSE IF trim(current) # << >> THEN <<trim(current)>>
        ELSE << >>

smartSplit(str, delimiter) == smartSplitFrom(str, delimiter, 1)

(***************************************************************************)
(* The Table Resolver: FROM lists.                                         *)
(***************************************************************************)

\* The text between [^ and ] of the character class of fromPattern.  The
\* class excludes each of these characters (under /i: in either case), not
\* the words they spell.
FromClassText ==
    <<"W","H","E","R","E","|","J","O","I","N","|","G","R","O","U","P","|",
      "O","R","D","E","R","|","H","A","V","I","N","G","|","L","I","M","I","T",
      "|",";">>

\* The text between [^ and ] of the character class that ends joinPattern.
JoinClassText ==
    <<"J","O","I","N","|","W","H","E","R","E","|","G","R","O","U","P","|",
      "O","R","D","E","R","|","H","A","V","I","N","G","|","L","I","M","I","T",
      "|",";">>

\* The characters a negated class [^text] does not match, under /i.
ClassExcludes(classText) ==
    LET written == {classText[i] : i \in 1..Len(classText)}
    IN  written \cup {c \in LowerSet : ToUpper(c) \in written}

FromExcluded == ClassExcludes(FromClassText)

JoinExcluded == ClassExcludes(JoinClassText)

InClass(c, excluded) == c \notin excluded

\* Where a greedy [^...]+ starting at i ends.
SkipClass(q, i, excluded) == SkipNotIn(q, i, excluded)

kwFROM == <<"F","R","O","M">>

kwJOIN == <<"J","O","I","N">>

kwON == <<"O","N">>

kwAS == <<"A","S">>

kwSELECT == <<"S","E","L","E","C","T">>

kwWITH == <<"W","I","T","H">>

\* query.match(fromPattern): the matched texts, left to right.  \s+ and the
\* class both accept white space, so FROM matches at i exactly when one
\* white-space character and one more character of the class follow, and the
\* match runs to the end of that run of class characters.
fromAt(query, i) ==
    /\ MatchAt(query, i, kwFROM)
    /\ i + 5 <= Len(query)
    /\ IsSpace(query[i + 4])
    /\ InClass(query[i + 5], FromExcluded)

\* The matches that start at lastIndex = i or later.
RECURSIVE fromMatches(_, _)
fromMatches(query, i) ==
    LET starts == {j \in i..Len(query) : fromAt(query, j)}
        j == Least(starts)
        e == SkipClass(query, j + 5, FromExcluded)
    IN  IF starts = {} THEN << >>
        ELSE <<SubSeq(query, j, e - 1)>> \o fromMatches(query, e)

\* String.prototype.split(',')
RECURSIVE splitComma(_)
splitComma(s) ==
    IF ~includes(s, ",") THEN <<s>>
    ELSE LET i == Least({k \in 1..Len(s) : s[k] = ","})
         IN  <<SubSeq(s, 1, i - 1)>> \o splitComma(SubSeq(s, i + 1, Len(s)))

\* String.prototype.split(/\s+/)
RECURSIVE splitSpace(_)
splitSpace(s) ==
    LET i == SkipNonSpace(s, 1)
    IN  IF i > Len(s) THEN <<s>>
        ELSE <<SubSeq(s, 1, i - 1)>>
               \o splitSpace(SubSeq(s, SkipSpace(s, i), Len(s)))

\* The body of the forEach of extractTablesFromString, for one part.
\* extractTable without the length test before tableParts[1] is read: the
\* read of a missing element gives undefined, and its toUpperCase throws.
extractTable_NoLengthTest(st, rawPart) ==
    LET part       == trim(rawPart)
        tableParts == splitSpace(part)
        tableName  == tableParts[1]
        alias      == IF toUpperCase(tableParts[2]) # kwAS
                      THEN tableParts[Len(tableParts)]
                      ELSE Null
    IN  IF includes(part, "(") THEN st
        ELSE IF Len(tableParts) < 2 THEN [st EXCEPT !.raised = TRUE]
        ELSE addTable(st, tableName, alias, "table")

extractTable(st, rawPart) ==
    LET part       == trim(rawPart)
        tableParts == splitSpace(part)
        tableName  == tableParts[1]
        alias      == IF Len(tableParts) > 1 /\ toUpperCase(tableParts[2]) # kwAS
                      THEN tableParts[Len(tableParts)]
                      ELSE Null
    IN  IF includes(part, "(") THEN st
        ELSE addTable(st, tableName, alias, "table")

RECURSIVE extractParts(_, _, _)
extractParts(st, parts, k) ==
    IF k > Len(parts) \/ st.raised THEN st
    ELSE extractParts(extractTable(st, parts[k]), parts, k + 1)

extractTablesFromString(st, tableString) ==
    extractParts(st, splitComma(tableString), 1)

RECURSIVE fromEach(_, _, _)
fromEach(st, matches, k) ==
    IF k > Len(matches) \/ st.raised THEN st
    ELSE LET match      == matches[k]
             \* match.replace(/FROM\s+/i, '').trim()
             tablesPart == trim(SubSeq(match, SkipSpace(match, 5), Len(match)))
         IN  fromEach(extractTablesFromString(st, tablesPart), matches, k + 1)

parseFromClause(st, query) == fromEach(st, fromMatches(query, 1), 1)

(***************************************************************************)
(* The Join Condition Extractor and the JOIN pass of the Table Resolver.   *)
(***************************************************************************)

\* conditionPattern /(\w+)\.(\w+)\s*=\s*(\w+)\.(\w+)/ tried at position i:
\* every \w+ is followed by a character that is no word character, so each
\* takes its whole run.  ok tells whether it matches; next is lastIndex.
conditionAt(condition, i) ==
    LET e1 == SkipWord(condition, i)
        e2 == SkipWord(condition, e1 + 1)
        eq == SkipSpace(condition, e2)
        s3 == SkipSpace(condition, eq + 1)
        e3 == SkipWord(condition, s3)
        e4 == SkipWord(condition, e3 + 1)
        ok == /\ e1 > i
              /\ e1 <= Len(condition) /\ condition[e1] = "."
              /\ e2 > e1 + 1
              /\ eq <= Len(condition) /\ condition[eq] = "="
              /\ e3 > s3
              /\ e3 <= Len(condition) /\ condition[e3] = "."
              /\ e4 > e3 + 1
    IN  IF ok
        THEN [ok |-> TRUE,
              leftTable   |-> SubSeq(condition, i, e1 - 1),
              leftColumn  |-> SubSeq(condition, e1 + 1, e2 - 1),
              rightTable  |-> SubSeq(condition, s3, e3 - 1),
              rightColumn |-> SubSeq(condition, e3 + 1, e4 - 1),
              next |-> e4]
        ELSE [ok |-> FALSE]

\* The while loop of parseJoinCondition, from lastIndex = i.
RECURSIVE joinConditionLoop(_, _, _)
joinConditionLoop(st, condition, i) ==
    LET starts == {j \in i..Len(condition) : conditionAt(condition, j).ok}
        match  == conditionAt(condition, Least(starts))
    IN  IF starts = {} THEN st
        ELSE joinConditionLoop(
               addRelationship(st, match.leftTable, match.leftColumn,
                               match.rightTable, match.rightColumn, "join"),
               condition, match.next)

parseJoinCondition(st, condition) == joinConditionLoop(st, condition, 1)

\* \s+ON\s+([^...]+) of joinPattern tried at position p.  The last \s+ gives
\* back one white-space character to the class when what follows the white
\* space is excluded from the class.
onAt(query, p) ==
    LET o  == SkipSpace(query, p)
        w  == o + 2
        c  == SkipSpace(query, w)
        e  == SkipClass(query, c, JoinExcluded)
        head == /\ o > p
                /\ MatchAt(query, o, kwON)
                /\ c > w
    IN  IF head /\ e > c
        THEN [ok |-> TRUE, onCondition |-> SubSeq(query, c, e - 1), next |-> e]
        ELSE IF head /\ c - w >= 2
        THEN [ok |-> TRUE, onCondition |-> SubSeq(query, c - 1, c - 1), next |-> c]
        ELSE [ok |-> FALSE]

\* joinPattern from the JOIN keyword at position j on (an optional qualifier
\* and white space before JOIN change neither the groups used nor lastIndex).
\* Every [^\s]+ is followed by \s+, so it takes a whole token.  The optional
\* alias group is tried with AS, then without AS, then left out.
joinAt(query, j) ==
    LET s1 == SkipSpace(query, j + 4)
        e1 == SkipNonSpace(query, s1)
        s2 == SkipSpace(query, e1)
        e2 == SkipNonSpace(query, s2)
        s3 == SkipSpace(query, e2)
        e3 == SkipNonSpace(query, s3)
        head   == MatchAt(query, j, kwJOIN) /\ s1 > j + 4 /\ e1 > s1
        withAs == /\ head /\ s2 > e1
                  /\ MatchAt(query, s2, kwAS) /\ e2 = s2 + 2
                  /\ e3 > s3
                  /\ onAt(query, e3).ok
        withAlias == head /\ s2 > e1 /\ e2 > s2 /\ onAt(query, e2).ok
        bare   == head /\ onAt(query, e1).ok
        tableName == SubSeq(query, s1, e1 - 1)
    IN  IF withAs
        THEN [ok |-> TRUE, tableName |-> tableName,
              alias |-> SubSeq(query, s3, e3 - 1), on |-> onAt(query, e3)]
        ELSE IF withAlias
        THEN [ok |-> TRUE, tableName |-> tableName,
              alias |-> SubSeq(query, s2, e2 - 1), on |-> onAt(query, e2)]
        ELSE IF bare
        THEN [ok |-> TRUE, tableName |-> tableName, alias |-> Null,
              on |-> onAt(query, e1)]
        ELSE [ok |-> FALSE]

\* The while loop of parseJoins, from lastIndex = i.
RECURSIVE joinLoop(_, _, _)
joinLoop(st, query, i) ==
    LET starts == {j \in i..Len(query) : joinAt(query, j).ok}
        match  == joinAt(query, Least(starts))
    IN  IF starts = {} \/ st.raised THEN st
        ELSE joinLoop(
               parseJoinCondition(
                 addTable(st, match.tableName, match.alias, "table"),
                 match.on.onCondition),
               query, match.on.next)

parseJoins(st, query) == joinLoop(st, query, 1)

(***************************************************************************)
(* The Projection Extractor.                                               *)
(***************************************************************************)

\* /open\s+(.*?)\s+close/ .exec(query): the capture group of the first
\* match, or Null.  The leftmost `open` that can match wins; its \s+ keeps as
\* much white space as still lets the rest match; the lazy group is then as
\* short as possible and holds no line terminator.
lazyEnds(query, c, close) ==
    {p \in c..Len(query) :
        /\ \A k \in c..(p - 1) : query[k] \notin LineTerminators
        /\ IsSpace(query[p])
        /\ MatchAt(query, SkipSpace(query, p), close)}

lazyStarts(query, s, open, close) ==
    {c \in (s + Len(open) + 1)..SkipSpace(query, s + Len(open)) :
        lazyEnds(query, c, close) # {}}

lazyBetween(query, open, close) ==
    LET starts == {s \in 1..Len(query) :
                     MatchAt(query, s, open) /\ lazyStarts(query, s, open, close) # {}}
        s == Least(starts)
        cs == lazyStarts(query, s, open, close)
        c == CHOOSE x \in cs : \A y \in cs : x >= y
        p == Least(lazyEnds(query, c, close))
    IN  IF starts = {} THEN Null ELSE SubSeq(query, c, p - 1)

\* col.match(/^\w+\.\w+$/)
isBareQualified(col) ==
    LET e1 == SkipWord(col, 1)
        e2 == SkipWord(col, e1 + 1)
    IN  /\ e1 > 1
        /\ e1 <= Len(col) /\ col[e1] = "."
        /\ e2 > e1 + 1
        /\ e2 = Len(col) + 1

\* /(\w+)\.(\w+)(?:\s+(?:AS\s+)?(\w+))?/i tried at position i of col.  The
\* optional alias group is tried with AS, then without; an alias that did not
\* take part in the match is undefined.
columnAt(col, i) ==
    LET e1 == SkipWord(col, i)
        e2 == SkipWord(col, e1 + 1)
        s  == SkipSpace(col, e2)
        a  == SkipSpace(col, s + 2)
        withAs == /\ s > e2
                  /\ MatchAt(col, s, kwAS)
                  /\ a > s + 2
                  /\ SkipWord(col, a) > a
        plain  == s > e2 /\ SkipWord(col, s) > s
        ok == /\ e1 > i
              /\ e1 <= Len(col) /\ col[e1] = "."
              /\ e2 > e1 + 1
    IN  IF ok
        THEN [ok |-> TRUE,
              tableRef   |-> SubSeq(col, i, e1 - 1),
              columnName |-> SubSeq(col, e1 + 1, e2 - 1),
              alias |-> IF withAs THEN SubSeq(col, a, SkipWord(col, a) - 1)
                        ELSE IF plain THEN SubSeq(col, s, SkipWord(col, s) - 1)
                        ELSE Null]
        ELSE [ok |-> FALSE]

\* The body of the forEach of parseSelectColumns, for one item.
selectColumn(st, rawCol) ==
    LET col    == trim(rawCol)
        starts == {i \in 1..Len(col) : columnAt(col, i).ok}
        columnMatch == columnAt(col, Least(starts))
    IN  IF includes(col, "(") /\ ~isBareQualified(col) THEN st
        ELSE IF starts = {} THEN st
        ELSE addColumn(st, columnMatch.tableRef, columnMatch.columnName,
                       columnMatch.alias)

RECURSIVE selectEach(_, _, _)
selectEach(st, cols, k) ==
    IF k > Len(cols) \/ st.raised THEN st
    ELSE selectEach(selectColumn(st, cols[k]), cols, k + 1)

parseSelectColumns(st, selectClause) ==
    IF trim(selectClause) = <<"*">> THEN st
    ELSE selectEach(st, smartSplit(selectClause, ","), 1)

parseSelectClause(st, query) ==
    LET selectClause == lazyBetween(query, kwSELECT, kwFROM)
    IN  IF selectClause = Null THEN st
        ELSE parseSelectColumns(st, selectClause)

(***************************************************************************)
(* The CTE Resolver and parseQuery as a whole.                             *)
(***************************************************************************)

\* The state reset of parseQuery: tables.clear(), relationships = [],
\* columns.clear().  The log of registrations starts anew with the call.
\* The clearing at entry without this.tables.clear().
resetState_KeepTables(st) ==
    [st EXCEPT !.relationships = << >>, !.columns = << >>, !.log = << >>]

resetState(st) ==
    [st EXCEPT !.tables = << >>, !.relationships = << >>, !.columns = << >>,
               !.log = << >>]

\* The value parseQuery returns.
graph(st) ==
    [tables |-> st.tables, relationships |-> st.relationships,
     columns |-> st.columns]

\* ctePattern with a greedy body, (.*) for (.*?): the body runs to the last )
\* of its line.
cteAt_GreedyBody(withClause, i) ==
    LET e1 == SkipWord(withClause, i)
        a  == SkipSpace(withClause, e1)
        b  == SkipSpace(withClause, a + 2)
        closes == {k \in (b + 1)..Len(withClause) :
                     /\ withClause[k] = ")"
                     /\ \A m \in (b + 1)..(k - 1) :
                          withClause[m] \notin LineTerminators}
        close == CHOOSE k \in closes : \A m \in closes : m <= k
        ok == /\ e1 > i
              /\ a > e1
              /\ MatchAt(withClause, a, kwAS)
              /\ b <= Len(withClause) /\ withClause[b] = "("
              /\ closes # {}
    IN  IF ok
        THEN [ok |-> TRUE, cteName |-> SubSeq(withClause, i, e1 - 1),
              cteQuery |-> SubSeq(withClause, b + 1, close - 1),
              next |-> close + 1]
        ELSE [ok |-> FALSE]

\* ctePattern /(\w+)\s+AS\s*\((.*?)\)/ tried at position i: the body is the
\* text up to the first `)`, and holds no line terminator.
cteAt(withClause, i) ==
    LET e1 == SkipWord(withClause, i)
        a  == SkipSpace(withClause, e1)
        b  == SkipSpace(withClause, a + 2)
        closes == {k \in (b + 1)..Len(withClause) :
                     /\ withClause[k] = ")"
                     /\ \A m \in (b + 1)..(k - 1) :
                          withClause[m] \notin LineTerminators \cup {")"}}
        close == Least(closes)
        ok == /\ e1 > i
              /\ a > e1
              /\ MatchAt(withClause, a, kwAS)
              /\ b <= Len(withClause) /\ withClause[b] = "("
              /\ closes # {}
    IN  IF ok
        THEN [ok |-> TRUE, cteName |-> SubSeq(withClause, i, e1 - 1),
              cteQuery |-> SubSeq(withClause, b + 1, close - 1),
              next |-> close + 1]
        ELSE [ok |-> FALSE]

\* subResult.tables.forEach(...) of parseCTEs
RECURSIVE cteSources(_, _, _, _)
cteSources(st, subTables, cteName, k) ==
    IF k > Len(subTables) THEN st
    ELSE cteSources(addRelationship(st, subTables[k].name, <<"*">>,
                                    cteName, <<"*">>, "cte"),
                    subTables, cteName, k + 1)

RECURSIVE parseQuery(_, _)

\* The while loop of parseCTEs, from lastIndex = i.  The sub-parser is a new
\* SQLParser; an exception of its parseQuery passes through the caller.
RECURSIVE cteLoop(_, _, _)
cteLoop(st, withClause, i) ==
    LET starts == {j \in i..Len(withClause) : cteAt(withClause, j).ok}
        match  == cteAt(withClause, Least(starts))
        declared  == addTable(st, match.cteName, Null, "cte")
        subResult == parseQuery(NewParser, match.cteQuery)
    IN  IF starts = {} \/ st.raised THEN st
        ELSE IF subResult.raised THEN [declared EXCEPT !.raised = TRUE]
        ELSE cteLoop(cteSources(declared, subResult.tables, match.cteName, 1),
                     withClause, match.next)

parseCTEs(st, withClause) == cteLoop(st, withClause, 1)

\* The texts that the while loop of parseCTEs, from lastIndex = i, hands to
\* the parseQuery of a sub-parser.
RECURSIVE cteQueriesFrom(_, _)
cteQueriesFrom(withClause, i) ==
    LET starts == {j \in i..Len(withClause) : cteAt(withClause, j).ok}
        match  == cteAt(withClause, Least(starts))
    IN  IF starts = {} THEN << >>
        ELSE <<match.cteQuery>> \o cteQueriesFrom(withClause, match.next)

\* The texts that a parseQuery of the text hands to sub-parsers.
cteQueries(text) ==
    LET withClause == lazyBetween(cleanQuery(text), kwWITH, kwSELECT)
    IN  IF withClause = Null THEN << >> ELSE cteQueriesFrom(withClause, 1)

parseWithClause(st, query) ==
    LET withClause == lazyBetween(query, kwWITH, kwSELECT)
    IN  IF withClause = Null THEN st
        ELSE parseCTEs(st, withClause)

\* parseQuery on the instance state st: the state the call leaves behind
\* (what it returns is graph of that state).  cleanQuery of null throws
\* before anything is reset.
parseQuery(st, sqlQuery) ==
    IF sqlQuery = Null THEN [st EXCEPT !.raised = TRUE]
    ELSE LET query == cleanQuery(sqlQuery)
         IN  parseWithClause(
               parseSelectClause(
                 parseJoins(
                   parseFromClause(resetState(st), query), query), query), query)

(***************************************************************************)
(* The query texts the calls are made with.                                *)
(***************************************************************************)

\* The texts of ws, joined by single spaces.
RECURSIVE Spaced(_)
Spaced(ws) ==
    IF Len(ws) = 0 THEN << >>
    ELSE IF Len(ws) = 1 THEN ws[1]
    ELSE ws[1] \o <<" ">> \o Spaced(Tail(ws))

\* a.b
Dot(a, b) == a \o <<".">> \o b

idA == <<"a">>
idB == <<"b">>
idC == <<"c">>
idK == <<"k">>
idQ == <<"q">>
idS == <<"s">>
idT == <<"t">>
idX == <<"x">>
idY == <<"y">>
idZ == <<"z">>
idId == <<"i","d">>
idAId == <<"a","_","i","d">>
idFoo == <<"f","o","o">>
idBar == <<"b","a","r">>
idBaz == <<"b","a","z">>
idSrc == <<"s","r","c">>
idBronzeCustomers ==
    <<"b","r","o","n","z","e",".","c","u","s","t","o","m","e","r","s">>
idQuotedS == <<"[","s","]">>
idQuotes == <<"\"","\"">>
star == <<"*">>
equals == <<"=">>
one == <<"1">>
kwAND == <<"A","N","D">>
kwOR == <<"O","R">>
kwWHERE == <<"W","H","E","R","E">>
kwLEFT == <<"L","E","F","T">>

\* FROM <name> <alias>
QFromAlias(name, alias) == Spaced(<<kwFROM, name, alias>>)

\* FROM <a> JOIN <b> ON <a>.<c1> = <b>.<c2>
QJoin(a, b, c1, c2) ==
    Spaced(<<kwFROM, a, kwJOIN, b, kwON, Dot(a, c1), equals, Dot(b, c2)>>)

\* SELECT <t>.<c1>, <t>.<c2> AS <k> FROM <t>
QProjection(t, c1, c2, k) ==
    Spaced(<<kwSELECT, Dot(t, c1) \o <<",">>, Dot(t, c2), kwAS, k, kwFROM, t>>)

\* WITH <x> AS (SELECT * FROM <src>) SELECT * FROM <x>
QCte(x, src) ==
    Spaced(<<kwWITH, x, kwAS, <<"(">> \o kwSELECT, star, kwFROM, src \o <<")">>,
             kwSELECT, star, kwFROM, x>>)

\* FROM (SELECT 1) <alias>
QSubquery(alias) ==
    Spaced(<<kwFROM, <<"(">> \o kwSELECT, one \o <<")">>, alias>>)

\* SELECT * FROM (SELECT 1 FROM <inner>) <alias>
QSubqueryFrom(inner, alias) ==
    Spaced(<<kwSELECT, star, kwFROM, <<"(">> \o kwSELECT, one, kwFROM,
             inner \o <<")">>, alias>>)

\* FROM <a> JOIN <b> ON <a>.<c1> = <b>.<c2> <AND|OR> <a>.<c3> = <b>.<c4>
QJoinMulti(a, b, c1, c2, connective, c3, c4) ==
    Spaced(<<QJoin(a, b, c1, c2), connective, Dot(a, c3), equals, Dot(b, c4)>>)

\* WITH <x> AS (<body>) SELECT * FROM <q>
QCteBody(x, body, q) ==
    Spaced(<<kwWITH, x, kwAS, <<"(">> \o body \o <<")">>, kwSELECT, star,
             kwFROM, q>>)

\* FROM x JOIN s ON <a>.<c1> = <b>.<c2> JOIN y ON <a>.<c1> = <b>.<c2>
QJoinTwice(a, b, c1, c2) ==
    Spaced(<<kwFROM, idX, kwJOIN, idS, kwON, Dot(a, c1), equals, Dot(b, c2),
             kwJOIN, idY, kwON, Dot(a, c1), equals, Dot(b, c2)>>)

\* The number of instances of each query form that the calls draw from.
MaxArgs == 4

FirstArgs(args) ==
    {args[i] : i \in 1..(IF MaxArgs < Len(args) THEN MaxArgs ELSE Len(args))}

FromAliasArgs ==
    << <<idBronzeCustomers, idC>>, <<idX, idY>>, <<idSrc, idK>>, <<idS, idC>>,
       <<idB, idT>>, <<idT, idX>> >>

JoinArgs ==
    << <<idA, idB, idId, idAId>>, <<idX, idS, idK, idC>>, <<idS, idY, idK, idK>>,
       <<idX, idB, idC, idK>>, <<idB, idX, idId, idK>>, <<idT, idS, idK, idZ>> >>

ProjectionArgs ==
    << <<idT, idFoo, idBar, idBaz>>, <<idX, idK, idC, idZ>>,
       <<idS, idFoo, idK, idQ>>, <<idB, idK, idZ, idC>>, <<idY, idC, idZ, idK>>,
       <<idA, idId, idK, idZ>> >>

CteArgs ==
    << <<idX, idSrc>>, <<idY, idS>>, <<idZ, idBronzeCustomers>>, <<idS, idB>>,
       <<idT, idX>>, <<idQ, idY>> >>

SubqueryArgs ==
    << <<idX, idT>>, <<idS, idC>>, <<idSrc, idY>>, <<idB, idQ>>, <<idT, idX>> >>

\* Texts that register an id more than once, use unsupported constructs, or
\* are not SQL at all.
JoinMultiArgs ==
    << <<idA, idB, idX, idY, kwAND, idZ, idQ>>, <<idX, idS, idK, idC, kwAND, idZ, idQ>>,
       <<idX, idS, idK, idC, kwOR, idZ, idQ>>, <<idS, idY, idC, idK, kwOR, idK, idC>>,
       <<idY, idX, idZ, idZ, kwAND, idC, idC>> >>

CteBodyArgs ==
    << \* SELECT s.k FROM s
       <<idY, Spaced(<<kwSELECT, Dot(idS, idK), kwFROM, idS>>), idY>>,
       \* SELECT * FROM x JOIN s ON x.k = s.c
       <<idY, Spaced(<<kwSELECT, star, kwFROM, idX, kwJOIN, idS, kwON,
                       Dot(idX, idK), equals, Dot(idS, idC)>>), idQ>>,
       \* SELECT x.k z FROM x
       <<idQ, Spaced(<<kwSELECT, Dot(idX, idK), idZ, kwFROM, idX>>), idQ>>,
       \* SELECT y.k, x.c FROM x JOIN s ON x.k = s.c
       <<idY, Spaced(<<kwSELECT, Dot(idY, idK) \o <<",">>, Dot(idX, idC), kwFROM,
                       idX, kwJOIN, idS, kwON, Dot(idX, idK), equals,
                       Dot(idS, idC)>>), idQ>>,
       \* FROM x JOIN y ON y.c = x.c
       <<idS, Spaced(<<kwFROM, idX, kwJOIN, idY, kwON, Dot(idY, idC), equals,
                       Dot(idX, idC)>>), idS>> >>

JoinTwiceArgs ==
    << <<idQ, idZ, idK, idC>>, <<idX, idS, idK, idK>>, <<idX, idY, idC, idZ>>,
       <<idB, idC, idK, idK>>, <<idS, idX, idZ, idQ>> >>

OtherQueries ==
    { << >>,
      kwSELECT,
      \* FROM ,x
      Spaced(<<kwFROM, <<",">> \o idX>>),
      \* SELECT x.k, x.k AS z, x.c q, s.k FROM x y, s y, x
      Spaced(<<kwSELECT, Dot(idX, idK) \o <<",">>, Dot(idX, idK), kwAS,
               idZ \o <<",">>, Dot(idX, idC), idQ \o <<",">>, Dot(idS, idK),
               kwFROM, idX, idY \o <<",">>, idS, idY \o <<",">>, idX>>),
      \* SELECT x.k FROM x JOIN s y ON x.k = y.k JOIN b y ON x.c = y.c
      Spaced(<<kwSELECT, Dot(idX, idK), kwFROM, idX, kwJOIN, idS, idY, kwON,
               Dot(idX, idK), equals, Dot(idY, idK), kwJOIN, idB, idY, kwON,
               Dot(idX, idC), equals, Dot(idY, idC)>>),
      \* WITH x AS (SELECT s.k FROM s), x AS (SELECT * FROM y) SELECT x.k, x.k z FROM q
      Spaced(<<kwWITH, idX, kwAS, <<"(">> \o kwSELECT, Dot(idS, idK), kwFROM,
               idS \o <<")", ",">>, idX, kwAS, <<"(">> \o kwSELECT, star, kwFROM,
               idY \o <<")">>, kwSELECT, Dot(idX, idK) \o <<",">>, Dot(idX, idK),
               idZ, kwFROM, idQ>>),
      \* SELECT COUNT(*), f(x.k, s.c), x.k + x.c FROM x
      Spaced(<<kwSELECT, <<"C","O","U","N","T","(","*",")",",">>,
               <<"f","(">> \o Dot(idX, idK) \o <<",">>, Dot(idS, idC) \o <<")", ",">>,
               Dot(idX, idK), <<"+">>, Dot(idX, idC), kwFROM, idX>>),
      \* FROM x LEFT JOIN s ON x.k = s.k AND x.c = s.c OR s.z = 1
      Spaced(<<kwFROM, idX, kwLEFT, kwJOIN, idS, kwON, Dot(idX, idK), equals,
               Dot(idS, idK), kwAND, Dot(idX, idC), equals, Dot(idS, idC), kwOR,
               Dot(idS, idZ), equals, one>>),
      \* WITH x AS (SELECT * FROM x) SELECT * FROM x
      QCte(idX, idX),
      \* FROM [s] q
      QFromAlias(idQuotedS, idQ),
      \* FROM x JOIN "" y ON x.k = y.k
      Spaced(<<kwFROM, idX, kwJOIN, idQuotes, idY, kwON, Dot(idX, idK), equals,
               Dot(idY, idK)>>),
      \* SELECT x.k FROM x WHERE x.k = 1
      Spaced(<<kwSELECT, Dot(idX, idK), kwFROM, idX, kwWHERE, Dot(idX, idK),
               equals, one>>) }

Queries ==
    {QFromAlias(r[1], r[2]) : r \in FirstArgs(FromAliasArgs)}
      \cup {QJoin(r[1], r[2], r[3], r[4]) : r \in FirstArgs(JoinArgs)}
      \cup {QProjection(r[1], r[2], r[3], r[4]) : r \in FirstArgs(ProjectionArgs)}
      \cup {QCte(r[1], r[2]) : r \in FirstArgs(CteArgs)}
      \cup {QSubquery(r[2]) : r \in FirstArgs(SubqueryArgs)}
      \cup {QSubqueryFrom(r[1], r[2]) : r \in FirstArgs(SubqueryArgs)}
      \cup {QCteBody(r[1], r[2], r[3]) : r \in FirstArgs(CteBodyArgs)}
      \cup {QJoinTwice(r[1], r[2], r[3], r[4]) : r \in FirstArgs(JoinTwiceArgs)}
      \cup {QJoinMulti(r[1], r[2], r[3], r[4], r[5], r[6], r[7]) :
                r \in FirstArgs(JoinMultiArgs)}
      \cup OtherQueries

\* What a caller may pass: a text, or null.
Inputs == Queries \cup {Null}

(***************************************************************************)
(* One SQLParser instance and the calls of parseQuery on it.               *)
(***************************************************************************)

VARIABLES
    tables,         \* this.tables, as the sequence of its values
    relationships,  \* this.relationships
    columns,        \* this.columns, as the sequence of its values
    regLog,         \* the addTable / addColumn calls of the current parseQuery
    raised,         \* the current call threw
    pc,             \* where the current parseQuery call stands
    sqlQuery,       \* the argument of the current call
    origin,         \* the text sqlQuery was written from (sqlQuery itself,
                    \* unless comments or white space were inserted)
    before,         \* what the instance held when the current call began
    query,          \* the local cleanQuery of parseQuery
    result,         \* the value the last completed call returned
    appIsColumnView,       \* DataLineageApp.isColumnView
    toggleActive,          \* #view-toggle carries the class 'active'
    rendererIsColumnView,  \* GraphRenderer.isColumnView
    currentData,           \* GraphRenderer.currentData
    loading,               \* #loading is displayed
    drawn,                 \* the view renderGraph drew last
    visualizeTimers,       \* pending 300 ms timers of handleVisualize
    renderTimers           \* graph data of the pending 500 ms timers of render

parserVars == <<tables, relationships, columns, regLog, raised, pc, sqlQuery,
                origin, before, query, result>>

\* The state of the page: the application, its renderer and their timers.
page == <<appIsColumnView, toggleActive, rendererIsColumnView, currentData,
          loading, drawn, visualizeTimers, renderTimers>>

vars == <<parserVars, page>>

\* The page after the constructors of DataLineageApp and GraphRenderer; the
\* view toggle of a newly loaded page does not carry the class 'active'.
NewPage ==
    /\ appIsColumnView = FALSE
    /\ toggleActive = FALSE
    /\ rendererIsColumnView = FALSE
    /\ currentData = "null"
    /\ loading = FALSE
    /\ drawn = "none"
    /\ visualizeTimers = 0
    /\ renderTimers = << >>

\* The instance state as the record the passes work on.
Self ==
    [tables |-> tables, relationships |-> relationships, columns |-> columns,
     log |-> regLog, raised |-> raised]

Becomes(st) ==
    /\ tables' = st.tables
    /\ relationships' = st.relationships
    /\ columns' = st.columns
    /\ regLog' = st.log
    /\ raised' = st.raised

\* A newly constructed instance, before any call.
Init ==
    /\ tables = NewParser.tables
    /\ relationships = NewParser.relationships
    /\ columns = NewParser.columns
    /\ regLog = NewParser.log
    /\ raised = NewParser.raised
    /\ pc = "idle"
    /\ sqlQuery = << >>
    /\ origin = << >>
    /\ before = graph(NewParser)
    /\ query = << >>
    /\ result = Null
    /\ NewPage

\* parseQuery with the reset moved before cleanQuery: a call with null
\* leaves an emptied instance behind.
Enter_ResetFirst(q, o) ==
    /\ sqlQuery' = q
    /\ origin' = o
    /\ before' = graph(Self)
    /\ IF q = Null
       THEN /\ Becomes([resetState(Self) EXCEPT !.raised = TRUE])
            /\ pc' = "failed"
            /\ UNCHANGED query
       ELSE /\ raised' = FALSE
            /\ pc' = "cleaned"
            /\ query' = cleanQuery(q)
            /\ UNCHANGED <<tables, relationships, columns, regLog>>
    /\ UNCHANGED <<result, page>>

\* parseQuery is entered with argument q, written from the text o: its
\* first statement runs cleanQuery, which throws for null before any state
\* is touched.
Enter(q, o) ==
    /\ sqlQuery' = q
    /\ origin' = o
    /\ before' = graph(Self)
    /\ IF q = Null
       THEN /\ raised' = TRUE
            /\ pc' = "failed"
            /\ UNCHANGED query
       ELSE /\ raised' = FALSE
            /\ pc' = "cleaned"
            /\ query' = cleanQuery(q)
    /\ UNCHANGED <<tables, relationships, columns, regLog, result>>
    /\ UNCHANGED page

\* A call of parseQuery with one of the inputs.
Call ==
    /\ pc \in {"idle", "done", "failed"}
    /\ \E q \in Inputs : Enter(q, q)

\* The instance after one statement of parseQuery; an exception ends the call.
Proceed(st, to) ==
    /\ Becomes(st)
    /\ pc' = IF st.raised THEN "failed" ELSE to
    /\ UNCHANGED <<sqlQuery, origin, before, query, result, page>>

\* this.tables.clear(); this.relationships = []; this.columns.clear();
Reset ==
    /\ pc = "cleaned"
    /\ Proceed(resetState(Self), "reset")

\* this.parseFromClause(cleanQuery);
FromPass ==
    /\ pc = "reset"
    /\ Proceed(parseFromClause(Self, query), "from")

\* this.parseJoins(cleanQuery);
JoinPass ==
    /\ pc = "from"
    /\ Proceed(parseJoins(Self, query), "joins")

\* this.parseSelectClause(cleanQuery);
SelectPass ==
    /\ pc = "joins"
    /\ Proceed(parseSelectClause(Self, query), "select")

\* this.parseWithClause(cleanQuery);
WithPass ==
    /\ pc = "select"
    /\ Proceed(parseWithClause(Self, query), "with")

\* return { tables: ..., relationships: ..., columns: ... };
Return ==
    /\ pc = "with"
    /\ result' = graph(Self)
    /\ pc' = "done"
    /\ UNCHANGED <<tables, relationships, columns, regLog, raised, sqlQuery,
                   origin, before, query, page>>

Passes == Reset \/ FromPass \/ JoinPass \/ SelectPass \/ WithPass \/ Return

Next == Call \/ Passes

Spec == Init /\ [][Next]_vars

(***************************************************************************)
(* Calls with a text into which a comment or white space was inserted.     *)
(***************************************************************************)

\* The text q with ins inserted after its first p characters.
Insert(q, p, ins) == SubSeq(q, 1, p) \o ins \o SubSeq(q, p + 1, Len(q))

\* The places of q between two tokens (or before the first, after the
\* last): every place that is not inside a run of word characters.
Boundaries(q) ==
    {p \in 0..Len(q) :
        p = 0 \/ p = Len(q) \/ ~(IsWord(q[p]) /\ IsWord(q[p + 1]))}

\* A block comment, a line comment ended by a newline, white space.
Insertions ==
    { <<"/","*"," ","c"," ","*","/">>,
      <<"-","-"," ","c","\n">>,
      <<" ">>,
      <<"\n","\t">> }

\* The texts the insertions are made into.
EditBases ==
    { QCte(idX, idS),
      QJoin(idX, idS, idK, idC),
      QProjection(idX, idK, idC, idZ),
      QFromAlias(idX, idY) }

\* One call, on a new instance, with an edited text.
CallEdited ==
    /\ pc = "idle"
    /\ \E o \in EditBases : \E p \in Boundaries(o) : \E ins \in Insertions :
           Enter(Insert(o, p, ins), o)

NextEdited == CallEdited \/ Passes

SpecEdited == Init /\ [][NextEdited]_vars

(***************************************************************************)
(* Calls with arbitrary short texts: every sequence of at most MaxTokens   *)
(* fragments, joined by single spaces.                                     *)
(***************************************************************************)

MaxTokens == 3

Fragments ==
    { kwFROM,
      idX,
      <<",">>,
      <<"(">>,
      kwAS,
      \* SELECT x.k
      Spaced(<<kwSELECT, Dot(idX, idK)>>),
      \* JOIN s ON x.k = s.k
      Spaced(<<kwJOIN, idS, kwON, Dot(idX, idK), equals, Dot(idS, idK)>>),
      \* OR x.c = 1 AND s.c = x.c
      Spaced(<<kwOR, Dot(idX, idC), equals, one, kwAND, Dot(idS, idC), equals,
               Dot(idX, idC)>>),
      \* SELECT COUNT(*), x.c + 1
      Spaced(<<kwSELECT, <<"C","O","U","N","T","(","*",")",",">>, Dot(idX, idC),
               <<"+">>, one>>),
      \* WITH y AS (
      Spaced(<<kwWITH, idY, kwAS, <<"(">> >>),
      \* ) SELECT *
      Spaced(<<<<")">>, kwSELECT, star>>) }

TokenTexts ==
    UNION {{Spaced(ws) : ws \in [1..n -> Fragments]} : n \in 0..MaxTokens}

\* One call, on a new instance, with a text made of fragments.
CallTokens ==
    /\ pc = "idle"
    /\ \E q \in TokenTexts : Enter(q, q)

NextTokens == CallTokens \/ Passes

SpecTokens == Init /\ [][NextTokens]_vars

(***************************************************************************)
(* Properties.                                                             *)
(***************************************************************************)

EmptyGraph == graph(NewParser)

\* The entries of a sequence that carry the given id.
WithId(entries, id) == {i \in 1..Len(entries) : entries[i].id = id}

DistinctIds(entries) ==
    \A i, j \in 1..Len(entries) : entries[i].id = entries[j].id => i = j

\* The registrations of the given kind logged so far, as positions of regLog.
Registrations(op) == {k \in 1..Len(regLog) : regLog[k].op = op}

\* The first registration of the kind under the id.
FirstRegistration(op, id) ==
    Least({k \in Registrations(op) : regLog[k].entry.id = id})

\* A table entry without its columns list, which addColumn extends.
Declared(t) == [id |-> t.id, name |-> t.name, alias |-> t.alias, type |-> t.type]

tableEntry(id, name, alias, type, cols) ==
    [id |-> id, name |-> name, alias |-> alias, type |-> type, columns |-> cols]

columnEntry(t, c, alias) ==
    [id |-> Dot(t, c), table |-> t, name |-> c, alias |-> alias, type |-> "column"]

relationshipEntry(a, c1, b, c2, type) ==
    [id |-> Dot(a, c1) \o <<"-", ">">> \o Dot(b, c2), source |-> a,
     sourceColumn |-> c1, target |-> b, targetColumn |-> c2, type |-> type]

\* C1: whatever calls were made on the instance before, the graph a call
\* returns for a text is the graph a newly constructed parser returns for
\* that text, with the same ids, the same order and the same field values;
\* nothing of an earlier call is left in a later result.
C1_SameAsNewInstance ==
    pc = "done" => result = graph(parseQuery(NewParser, sqlQuery))

\* A call has returned a graph with tables on an instance that held other
\* tables when the call began.
C1_Witness ==
    /\ pc = "done"
    /\ before.tables # << >>
    /\ result.tables # << >>
    /\ before.tables # result.tables

\* C2: the graph returned for a text into which a block comment, a line
\* comment ended by a newline, or white space was inserted between two
\* tokens is the graph returned for the text without the insertion.
C2_InsertionKeepsGraph ==
    pc = "done" => result = graph(parseQuery(NewParser, origin))

\* A call with an edited text has returned, and the text differs from the
\* one it was made from.
C2_Witness == pc = "done" /\ sqlQuery # origin /\ result.tables # << >>

\* C3: FROM <name> <alias> registers exactly one table, with id = alias,
\* name = the table name as written and alias = alias.
C3_FromAliasOneTable ==
    \A r \in FirstArgs(FromAliasArgs) :
            (pc = "done" /\ sqlQuery = QFromAlias(r[1], r[2]))
                => result.tables = <<tableEntry(r[2], r[1], r[2], "table", << >>)>>

\* A call with a FROM <name> <alias> text has returned.
C3_Witness ==
    /\ pc = "done"
    /\ \E r \in FirstArgs(FromAliasArgs) : sqlQuery = QFromAlias(r[1], r[2])

\* C4: FROM <a> JOIN <b> ON <a>.<c1> = <b>.<c2> gives the tables with ids a
\* and b and exactly one relationship, from a.c1 to b.c2, of type "join".
C4_JoinTablesAndRelationship ==
    \A r \in FirstArgs(JoinArgs) :
            (pc = "done" /\ sqlQuery = QJoin(r[1], r[2], r[3], r[4]))
                => /\ Len(result.tables) = 2
                   /\ result.tables[1].id = r[1]
                   /\ result.tables[2].id = r[2]
                   /\ result.relationships =
                          <<relationshipEntry(r[1], r[3], r[2], r[4], "join")>>

\* A call with a text of the join form has returned.
C4_Witness ==
    /\ pc = "done"
    /\ \E r \in FirstArgs(JoinArgs) :
           sqlQuery = QJoin(r[1], r[2], r[3], r[4])

\* C5: SELECT <t>.<c1>, <t>.<c2> AS <k> FROM <t> gives the columns t.c1
\* (alias null) and t.c2 (alias k), and both are, in that order, in the
\* columns list of the table with id t.
C5_ProjectionColumnsOnTable ==
    \A r \in FirstArgs(ProjectionArgs) :
            (pc = "done" /\ sqlQuery = QProjection(r[1], r[2], r[3], r[4]))
                => /\ result.columns = <<columnEntry(r[1], r[2], Null),
                                         columnEntry(r[1], r[3], r[4])>>
                   /\ \E i \in WithId(result.tables, r[1]) :
                          result.tables[i].columns =
                              <<[name |-> r[2], alias |-> Null],
                                [name |-> r[3], alias |-> r[4]]>>

\* A call with a text of the projection form has returned.
C5_Witness ==
    /\ pc = "done"
    /\ \E r \in FirstArgs(ProjectionArgs) :
           sqlQuery = QProjection(r[1], r[2], r[3], r[4])

\* C6: WITH <x> AS (SELECT * FROM <src>) SELECT * FROM <x> gives a table
\* for src, a table with id x of type "cte", and exactly one relationship,
\* from src.* to x.*, of type "flow".
C6_CteFlow ==
    \A r \in FirstArgs(CteArgs) :
            (pc = "done" /\ sqlQuery = QCte(r[1], r[2]))
                => /\ WithId(result.tables, r[2]) # {}
                   /\ \E i \in WithId(result.tables, r[1]) :
                          result.tables[i].type = "cte"
                   /\ result.relationships =
                          <<relationshipEntry(r[2], star, r[1], star, "flow")>>

\* A call with a text of the CTE form has returned.
C6_Witness ==
    /\ pc = "done"
    /\ \E r \in FirstArgs(CteArgs) : sqlQuery = QCte(r[1], r[2])

\* C7: a parenthesised subquery in the FROM list gives no table, neither
\* for the subquery, nor for its alias, nor for a table named in a FROM
\* clause inside it, and the call does not raise.
C7_SubqueryNoTable ==
    \A r \in FirstArgs(SubqueryArgs) :
            (/\ pc \in {"done", "failed"}
             /\ sqlQuery \in {QSubquery(r[2]), QSubqueryFrom(r[1], r[2])})
                => pc = "done" /\ result.tables = << >>

\* A call with a subquery in its FROM list has returned.
C7_Witness ==
    /\ pc = "done"
    /\ \E r \in FirstArgs(SubqueryArgs) : sqlQuery = QSubqueryFrom(r[1], r[2])

\* C8: at every point of a call the table ids are pairwise distinct and the
\* column ids are pairwise distinct, the entry kept under an id is the one
\* of the first registration under it, and a registration under an id that
\* is already present changes neither the tables nor the columns.
C8_FirstRegistrationWins ==
    /\ DistinctIds(tables)
    /\ DistinctIds(columns)
    /\ \A i \in 1..Len(tables) :
           Declared(tables[i])
               = Declared(regLog[FirstRegistration("addTable", tables[i].id)].entry)
    /\ \A i \in 1..Len(columns) :
           columns[i] = regLog[FirstRegistration("addColumn", columns[i].id)].entry
    /\ \A k \in 1..Len(regLog) : regLog[k].existed => ~regLog[k].changed
    /\ pc = "done" => DistinctIds(result.tables) /\ DistinctIds(result.columns)

\* A call has returned in which a table was registered again under an id
\* with another name, and a column again under an id with another alias.
C8_Witness ==
    /\ pc = "done"
    /\ \E k \in Registrations("addTable") :
           /\ regLog[k].existed
           /\ regLog[k].entry.name
                  # regLog[FirstRegistration("addTable", regLog[k].entry.id)].entry.name
    /\ \E k \in Registrations("addColumn") :
           /\ regLog[k].existed
           /\ regLog[k].entry
                  # regLog[FirstRegistration("addColumn", regLog[k].entry.id)].entry

\* The value is a sequence.
IsSequence(v) == DOMAIN v = 1..Len(v)

\* C9: a call with a text, whatever the text, raises nothing and returns a
\* value with the three sequences tables, relationships and columns; for
\* the empty text all three are empty.
C9_NoRaiseForText ==
    /\ sqlQuery # Null => ~raised /\ pc # "failed"
    /\ (pc = "done" /\ sqlQuery # Null)
           => /\ DOMAIN result = {"tables", "relationships", "columns"}
              /\ IsSequence(result.tables)
              /\ IsSequence(result.relationships)
              /\ IsSequence(result.columns)
    /\ (pc = "done" /\ sqlQuery = << >>) => result = EmptyGraph

\* A call has returned for a text that names FROM and holds a parenthesis,
\* and for which nothing was extracted.
C9_Witness ==
    /\ pc = "done"
    /\ includes(sqlQuery, "(")
    /\ \E i \in 1..Len(sqlQuery) : MatchAt(sqlQuery, i, kwFROM)
    /\ result = EmptyGraph

\* C10: every table of a returned graph has id = alias when it has an alias
\* and id = name otherwise, a name without quote or bracket characters, a
\* non-empty id and name, an alias that is null or a non-empty token, and
\* the type "table" or "cte".
C10_TableEntriesWellFormed ==
    pc = "done" =>
        \A i \in 1..Len(result.tables) :
            LET t == result.tables[i]
            IN  /\ t.id = (IF t.alias # Null THEN t.alias ELSE t.name)
                /\ \A n \in 1..Len(t.name) : t.name[n] \notin QuoteChars
                /\ t.id # << >>
                /\ t.name # << >>
                /\ \/ t.alias = Null
                   \/ /\ t.alias # << >>
                      /\ \A n \in 1..Len(t.alias) : ~IsSpace(t.alias[n])
                /\ t.type \in {"table", "cte"}

\* A call has returned a graph with a table that has an alias.
C10_Witness ==
    /\ pc = "done"
    /\ \E i \in 1..Len(result.tables) : result.tables[i].alias # Null

(***************************************************************************)
(* Calls with SELECT <items> FROM x, for every list of at most MaxItems    *)
(* items.                                                                  *)
(***************************************************************************)

MaxItems == 2

\* An item of a SELECT list: its text, whether it is, as a whole, a
\* qualified reference <ident>.<ident> with an optional [AS] <ident>, and
\* the parts of that reference.
selectItem(text, simple, t, c, alias) ==
    [text |-> text, simple |-> simple, t |-> t, c |-> c, alias |-> alias]

SelectItems ==
    { selectItem(Dot(idX, idK), TRUE, idX, idK, Null),
      selectItem(Spaced(<<Dot(idX, idC), kwAS, idZ>>), TRUE, idX, idC, idZ),
      selectItem(Spaced(<<Dot(idS, idK), idQ>>), TRUE, idS, idK, idQ),
      selectItem(star, FALSE, << >>, << >>, Null),
      selectItem(idK, FALSE, << >>, << >>, Null),
      selectItem(Dot(idS, star), FALSE, << >>, << >>, Null),
      \* COUNT(x.z)
      selectItem(<<"C","O","U","N","T","(">> \o Dot(idX, idZ) \o <<")">>,
                 FALSE, << >>, << >>, Null),
      \* y.a + y.b
      selectItem(Spaced(<<Dot(idY, idA), <<"+">>, Dot(idY, idB)>>),
                 FALSE, << >>, << >>, Null),
      \* a.b || c.q AS e
      selectItem(Spaced(<<Dot(idA, idB), <<"|","|">>, Dot(idC, idQ), kwAS,
                          <<"e">> >>),
                 FALSE, << >>, << >>, Null) }

SelectLists == UNION {[1..n -> SelectItems] : n \in 1..MaxItems}

RECURSIVE commaList(_)
commaList(items) ==
    IF Len(items) = 1 THEN items[1].text
    ELSE items[1].text \o <<",", " ">> \o commaList(Tail(items))

\* SELECT <items> FROM x
QSelect(items) == Spaced(<<kwSELECT, commaList(items), kwFROM, idX>>)

\* One call, on a new instance, with a SELECT list.
CallSelect ==
    /\ pc = "idle"
    /\ \E items \in SelectLists : Enter(QSelect(items), QSelect(items))

NextSelect == CallSelect \/ Passes

SpecSelect == Init /\ [][NextSelect]_vars

\* C11: a column is registered only for a SELECT item that is a qualified
\* reference <ident>.<ident> with an optional [AS] <ident>, and for each such
\* item; a clause that is exactly *, unqualified columns, <t>.* items,
\* function calls and other expressions register no column.
C11_OnlySimpleReferences ==
    \A items \in SelectLists :
        (pc = "done" /\ sqlQuery = QSelect(items))
            => /\ \A i \in 1..Len(result.columns) :
                      \E n \in 1..Len(items) :
                          /\ items[n].simple
                          /\ result.columns[i].id = Dot(items[n].t, items[n].c)
               /\ \A n \in 1..Len(items) :
                      items[n].simple =>
                          WithId(result.columns, Dot(items[n].t, items[n].c)) # {}

\* A call has returned for a SELECT list that holds an expression over
\* qualified references.
C11_Witness ==
    /\ pc = "done"
    /\ \E items \in SelectLists :
           /\ sqlQuery = QSelect(items)
           /\ \E n \in 1..Len(items) :
                  ~items[n].simple /\ includes(items[n].text, "+")

(***************************************************************************)
(* smartSplit applied to every text of at most MaxSplitLen characters.     *)
(***************************************************************************)

MaxSplitLen == 5

SplitChars == {"a", " ", ",", "(", ")"}

SplitTexts == UNION {[1..n -> SplitChars] : n \in 0..MaxSplitLen}

\* A new instance and a text that smartSplit is about to be called with.
InitSplit ==
    /\ tables = NewParser.tables
    /\ relationships = NewParser.relationships
    /\ columns = NewParser.columns
    /\ regLog = NewParser.log
    /\ raised = NewParser.raised
    /\ pc = "idle"
    /\ sqlQuery \in SplitTexts
    /\ origin = << >>
    /\ before = graph(NewParser)
    /\ query = << >>
    /\ result = Null
    /\ NewPage

\* this.smartSplit(sqlQuery, ','), as parseSelectColumns calls it.
ApplySplit ==
    /\ pc = "idle"
    /\ result' = smartSplit(sqlQuery, ",")
    /\ pc' = "split"
    /\ UNCHANGED <<tables, relationships, columns, regLog, raised, sqlQuery,
                   origin, before, query, page>>

SpecSplit == InitSplit /\ [][ApplySplit]_vars

\* The running depth before character k of s: +1 for each ( and -1 for
\* each ) among the characters before it.
RunningDepth(s, k) ==
    Cardinality({j \in 1..(k - 1) : s[j] = "("})
      - Cardinality({j \in 1..(k - 1) : s[j] = ")"})

\* The delimiters of s at running depth zero.
TopDelimiters(s, d) == {k \in 1..Len(s) : s[k] = d /\ RunningDepth(s, k) = 0}

\* The text after the last delimiter at depth zero.
Remainder(s, d) ==
    LET tops == TopDelimiters(s, d)
    IN  IF tops = {} THEN s
        ELSE SubSeq(s, (CHOOSE k \in tops : \A j \in tops : j <= k) + 1, Len(s))

RECURSIVE Joined(_, _)
Joined(segs, d) ==
    IF Len(segs) = 0 THEN << >>
    ELSE IF Len(segs) = 1 THEN segs[1]
    ELSE segs[1] \o <<d>> \o Joined(Tail(segs), d)

RECURSIVE Unspaced(_)
Unspaced(s) ==
    IF Len(s) = 0 THEN << >>
    ELSE IF IsSpace(Head(s)) THEN Unspaced(Tail(s))
    ELSE <<Head(s)>> \o Unspaced(Tail(s))

IsBlank(s) == \A k \in 1..Len(s) : IsSpace(s[k])

\* The segments are trimmed, none holds a delimiter at depth zero, there is
\* one for each delimiter at depth zero and one more for a remainder that
\* is not blank, which is then the last segment.
SegmentsCutAtDepthZero(str, segs, d) ==
    /\ \A n \in 1..Len(segs) :
           /\ segs[n] = trim(segs[n])
           /\ TopDelimiters(segs[n], d) = {}
    /\ Len(segs) = Cardinality(TopDelimiters(str, d))
                     + (IF IsBlank(Remainder(str, d)) THEN 0 ELSE 1)
    /\ ~IsBlank(Remainder(str, d)) => segs[Len(segs)] = trim(Remainder(str, d))

\* C12 as stated: smartSplit cuts at exactly the delimiters at running depth
\* zero, returns trimmed segments, emits a remainder that is not empty as
\* the last segment, and the segments joined again with the delimiter give
\* str up to the white space that trimming removed.
C12_Original ==
    pc = "split" =>
        /\ SegmentsCutAtDepthZero(sqlQuery, result, ",")
        /\ Unspaced(Joined(result, ",")) = Unspaced(sqlQuery)

\* C12: as above, but when the text after the last delimiter at depth zero
\* is blank, the joined segments give str without that last delimiter.
C12_SplitAtDepthZero ==
    pc = "split" =>
        /\ SegmentsCutAtDepthZero(sqlQuery, result, ",")
        /\ Unspaced(Joined(result, ",")
                      \o (IF /\ TopDelimiters(sqlQuery, ",") # {}
                             /\ IsBlank(Remainder(sqlQuery, ","))
                          THEN <<",">> ELSE << >>))
               = Unspaced(sqlQuery)

\* smartSplit has returned two segments for a text that holds a delimiter
\* inside parentheses and one outside.
C12_Witness ==
    /\ pc = "split"
    /\ Len(result) = 2
    /\ \E k \in 1..Len(sqlQuery) :
           sqlQuery[k] = "," /\ RunningDepth(sqlQuery, k) > 0

\* C13: for a JOIN whose ON condition holds two qualified equalities joined
\* by AND or OR, the condition text runs to the end of the statement and
\* each equality gives one join relationship, in the order of the text.
C13_EveryEqualityOfCondition ==
    \A r \in FirstArgs(JoinMultiArgs) :
        (pc = "done"
           /\ sqlQuery = QJoinMulti(r[1], r[2], r[3], r[4], r[5], r[6], r[7]))
            => result.relationships =
                   <<relationshipEntry(r[1], r[3], r[2], r[4], "join"),
                     relationshipEntry(r[1], r[6], r[2], r[7], "join")>>

\* A call with a JOIN of two equalities has returned.
C13_Witness ==
    /\ pc = "done"
    /\ \E r \in FirstArgs(JoinMultiArgs) :
           sqlQuery = QJoinMulti(r[1], r[2], r[3], r[4], r[5], r[6], r[7])

\* C14: of the body of a CTE the parent graph takes only the edges from the
\* body's tables to the CTE and the table entry of the CTE: it holds no
\* column and no join relationship extracted from the text of the body.
C14_NothingElseFromCteBody ==
    \A r \in FirstArgs(CteBodyArgs) :
        (pc = "done" /\ sqlQuery = QCteBody(r[1], r[2], r[3]))
            => /\ result.columns = << >>
               /\ \A i \in 1..Len(result.relationships) :
                      /\ result.relationships[i].type # "join"
                      /\ result.relationships[i].target = r[1]
                      /\ result.relationships[i].sourceColumn = star
                      /\ result.relationships[i].targetColumn = star

\* A call has returned for a text with a CTE whose body holds a qualified
\* column or a join, and the graph holds an edge to the CTE.
C14_Witness ==
    /\ pc = "done"
    /\ \E r \in FirstArgs(CteBodyArgs) :
           /\ sqlQuery = QCteBody(r[1], r[2], r[3])
           /\ includes(r[2], ".")
           /\ \E i \in 1..Len(result.relationships) :
                  result.relationships[i].target = r[1]

\* The id of the relationship is made of its own fields.
DerivedId(r) ==
    r.id = Dot(r.source, r.sourceColumn) \o <<"-", ">">>
               \o Dot(r.target, r.targetColumn)

IsPrefix(s, t) == Len(s) <= Len(t) /\ SubSeq(t, 1, Len(s)) = s

\* C15: after the clearing at entry, every step of a call leaves the
\* relationships it found in place and in order and only appends to them;
\* the id of every relationship is <source>.<sourceColumn>-><target>.
\* <targetColumn> of its own fields; a predicate extracted twice gives two
\* equal entries, also when its tables are no tables of the graph.
C15_RelationshipsAppendOnly ==
    [][/\ pc # "cleaned" => IsPrefix(relationships, relationships')
       /\ \A i \in 1..Len(relationships') : DerivedId(relationships'[i])
       /\ \A r \in FirstArgs(JoinTwiceArgs) :
              (pc' = "done" /\ sqlQuery' = QJoinTwice(r[1], r[2], r[3], r[4]))
                  => relationships' =
                         <<relationshipEntry(r[1], r[3], r[2], r[4], "join"),
                           relationshipEntry(r[1], r[3], r[2], r[4], "join")>>
      ]_vars

\* A call has returned a graph with two relationships of the same id whose
\* source is the id of no table of the graph.
C15_Witness ==
    /\ pc = "done"
    /\ \E i, j \in 1..Len(result.relationships) :
           /\ i < j
           /\ result.relationships[i].id = result.relationships[j].id
           /\ WithId(result.tables, result.relationships[i].source) = {}

\* The names in the columns list of a table.
ListedNames(t) == {t.columns[k].name : k \in 1..Len(t.columns)}

\* C16: in a returned graph the names in the columns list of a table are
\* pairwise distinct and each is the name of a column <table id>.<name> of
\* the graph; a column whose qualifier is the id of a table registered by
\* the FROM and JOIN passes is in the list of that table, and a column whose
\* qualifier is the id of no table known to the projection pass, a CTE
\* registered by the later CTE pass included, is in no list.
C16_ColumnsListOfTables ==
    pc = "done" =>
        /\ \A i \in 1..Len(result.tables) :
               LET t == result.tables[i]
               IN  /\ \A k, n \in 1..Len(t.columns) :
                          t.columns[k].name = t.columns[n].name => k = n
                   /\ \A k \in 1..Len(t.columns) :
                          WithId(result.columns, Dot(t.id, t.columns[k].name)) # {}
                   /\ t.type = "cte" => t.columns = << >>
        /\ \A n \in 1..Len(result.columns) :
               \A i \in WithId(result.tables, result.columns[n].table) :
                   result.tables[i].type = "table"
                       => result.columns[n].name \in ListedNames(result.tables[i])

\* A call has returned a graph with a column in the list of its table and a
\* column whose qualifier is a CTE registered after the projection pass.
C16_Witness ==
    /\ pc = "done"
    /\ \E n \in 1..Len(result.columns) :
           \E i \in WithId(result.tables, result.columns[n].table) :
               /\ result.tables[i].type = "table"
               /\ result.columns[n].name \in ListedNames(result.tables[i])
    /\ \E n \in 1..Len(result.columns) :
           \E i \in WithId(result.tables, result.columns[n].table) :
               result.tables[i].type = "cte"

(***************************************************************************)
(* cleanQuery applied to every text of at most MaxCleanLen characters.     *)
(***************************************************************************)

MaxCleanLen == 6

CleanChars == {"a", "\n", "-", "/", "*"}

CleanTexts == UNION {[1..n -> CleanChars] : n \in 0..MaxCleanLen}

\* A new instance and a text that parseQuery is about to be called with.
InitClean ==
    /\ tables = NewParser.tables
    /\ relationships = NewParser.relationships
    /\ columns = NewParser.columns
    /\ regLog = NewParser.log
    /\ raised = NewParser.raised
    /\ pc = "idle"
    /\ sqlQuery \in CleanTexts
    /\ origin = << >>
    /\ before = graph(NewParser)
    /\ query = << >>
    /\ result = Null
    /\ NewPage

\* const cleanQuery = this.cleanQuery(sqlQuery)
ApplyClean == pc = "idle" /\ Enter(sqlQuery, sqlQuery)

SpecClean == InitClean /\ [][ApplyClean]_vars

\* The text holds -- , the start of a line comment.
HasLineComment(s) ==
    \E i \in 1..(Len(s) - 1) : s[i] = "-" /\ s[i + 1] = "-"

\* The text holds /* followed by */ .
HasBlockComment(s) ==
    \E i \in 1..(Len(s) - 3) :
        /\ s[i] = "/" /\ s[i + 1] = "*"
        /\ \E j \in (i + 2)..(Len(s) - 1) : s[j] = "*" /\ s[j + 1] = "/"

\* C17: the text cleanQuery returns is one line, has no white space at its
\* ends and no white space but single spaces, holds no line comment and no
\* block comment, and cleanQuery applied to it returns it unchanged.
C17_CleanQueryNormalForm ==
    pc = "cleaned" =>
        /\ \A i \in 1..Len(query) : IsSpace(query[i]) => query[i] = " "
        /\ \A i \in 1..(Len(query) - 1) :
               ~(IsSpace(query[i]) /\ IsSpace(query[i + 1]))
        /\ query = trim(query)
        /\ ~HasLineComment(query)
        /\ ~HasBlockComment(query)
        /\ cleanQuery(query) = query

\* cleanQuery has returned a text for a text with a block comment and a
\* line end.
C17_Witness ==
    /\ pc = "cleaned"
    /\ HasBlockComment(sqlQuery)
    /\ includes(sqlQuery, "\n")
    /\ query # << >>

\* C18: every call with a text gets through its CTE pass and returns, the
\* text of a self-referential CTE included: each text that the CTE pass
\* hands to a sub-parser is strictly shorter than the text it is cut from
\* and holds no closing parenthesis, so that the sub-parser's own CTE pass
\* hands nothing on and the depth of nesting stays below the length of the
\* text.
C18_CteBodiesShrink ==
    /\ [](sqlQuery # Null =>
             \A k \in 1..Len(cteQueries(sqlQuery)) :
                 LET body == cteQueries(sqlQuery)[k]
                 IN  /\ Len(body) < Len(cleanQuery(sqlQuery))
                     /\ ~includes(body, ")")
                     /\ cteQueries(body) = << >>)
    /\ [][/\ pc = "select" => pc' = "with"
          /\ pc = "with" => pc' = "done"]_vars

\* A call with a CTE that names itself in its body has returned, with an
\* edge from the CTE to itself.
C18_Witness ==
    /\ pc = "done"
    /\ sqlQuery = QCte(idX, idX)
    /\ \E i \in 1..Len(result.relationships) :
           /\ result.relationships[i].source = idX
           /\ result.relationships[i].target = idX


\* C19: a call with null fails in its first statement: the tables,
\* relationships and columns of the instance are what they were when the
\* call began and the graph an earlier call returned is as it was; a call
\* with a text that follows the failed one returns the graph a newly
\* constructed parser returns for that text.
C19_NullCallLeavesInstance ==
    /\ [](pc = "failed" /\ sqlQuery = Null =>
             /\ raised
             /\ graph(Self) = before)
    /\ [][sqlQuery' = Null /\ pc' = "failed" =>
             UNCHANGED <<tables, relationships, columns, result>>]_vars
    /\ [][pc = "failed" /\ sqlQuery = Null /\ pc' = "cleaned" =>
             graph(parseQuery([Self EXCEPT !.raised = FALSE], sqlQuery')) =
                 graph(parseQuery(NewParser, sqlQuery'))]_vars
    /\ [](pc = "done" => result = graph(parseQuery(NewParser, sqlQuery)))

\* A call with null has failed on an instance that holds tables and
\* relationships, after an earlier call had returned a graph with tables.
C19_Witness ==
    /\ pc = "failed"
    /\ sqlQuery = Null
    /\ tables # << >>
    /\ relationships # << >>
    /\ result.tables # << >>

(***************************************************************************)
(* The page: DataLineageApp, its GraphRenderer and the timers between      *)
(* them.  Clicks and timer callbacks run to completion, one at a time, in  *)
(* any order; timers of one delay fire in the order they were set.         *)
(***************************************************************************)

\* The most timers of one kind that are pending at a time.
MaxTimers == 3

\* What the user may have left in the textarea #sql-query.
TextareaValues == {<< >>, <<" ", " ">>, QFromAlias(idX, idQ)}

\* this.parser.generateSampleData(): an object, the same at every call.
generateSampleData == "sampleData"

\* prepareGraphData(data, isColumnView): the nodes are the columns or the
\* tables of data.
prepareGraphData(data, isColumnView) ==
    IF isColumnView THEN "columns" ELSE "tables"

\* render without the assignment to this.isColumnView.
render_DropFlag(data, isColumnView) ==
    /\ currentData' = data
    /\ UNCHANGED rendererIsColumnView
    /\ loading' = TRUE
    /\ renderTimers' = Append(renderTimers, prepareGraphData(data, isColumnView))

\* GraphRenderer.render(data, isColumnView): stores both arguments, shows
\* the loading mark and sets the 500 ms timer that draws the graph.
render(data, isColumnView) ==
    /\ currentData' = data
    /\ rendererIsColumnView' = isColumnView
    /\ loading' = TRUE
    /\ renderTimers' = Append(renderTimers, prepareGraphData(data, isColumnView))

\* GraphRenderer.toggleView(): nothing without data.
rendererToggleView ==
    IF currentData = "null"
    THEN UNCHANGED <<rendererIsColumnView, currentData, loading, renderTimers>>
    ELSE render(currentData, ~rendererIsColumnView)

\* A click on #visualize-btn: with a blank textarea a notification and
\* nothing else, otherwise the 300 ms timer that will render the sample data.
handleVisualize ==
    /\ visualizeTimers < MaxTimers
    /\ \E value \in TextareaValues :
          IF trim(value) = << >>
          THEN UNCHANGED visualizeTimers
          ELSE visualizeTimers' = visualizeTimers + 1
    /\ UNCHANGED <<appIsColumnView, toggleActive, rendererIsColumnView,
                   currentData, loading, drawn, renderTimers>>
    /\ UNCHANGED parserVars

\* A click on #view-toggle: the application's flag follows the class of
\* the element, then the renderer toggles its own.
toggleView ==
    /\ Len(renderTimers) < MaxTimers
    /\ toggleActive' = ~toggleActive
    /\ appIsColumnView' = ~toggleActive
    /\ rendererToggleView
    /\ UNCHANGED <<drawn, visualizeTimers>>
    /\ UNCHANGED parserVars

\* A 300 ms timer of handleVisualize fires:
\* this.renderer.render(data, this.isColumnView), the flag read now.
VisualizeTimer ==
    /\ visualizeTimers > 0
    /\ Len(renderTimers) < MaxTimers
    /\ visualizeTimers' = visualizeTimers - 1
    /\ render(generateSampleData, appIsColumnView)
    /\ UNCHANGED <<appIsColumnView, toggleActive, drawn>>
    /\ UNCHANGED parserVars

\* The oldest 500 ms timer of render fires: renderGraph(graphData) and
\* hideLoading().
RenderTimer ==
    /\ renderTimers # << >>
    /\ drawn' = Head(renderTimers)
    /\ loading' = FALSE
    /\ renderTimers' = Tail(renderTimers)
    /\ UNCHANGED <<appIsColumnView, toggleActive, rendererIsColumnView,
                   currentData, visualizeTimers>>
    /\ UNCHANGED parserVars

NextPage == handleVisualize \/ toggleView \/ VisualizeTimer \/ RenderTimer

SpecPage == Init /\ [][NextPage]_vars

\* C20: in whatever order the clicks on Visualize, the clicks on the view
\* toggle and the visualize timers run, a renderer that holds data has the
\* flag of the application; a click on the toggle while the renderer holds
\* no data changes the application's flag and nothing of the renderer, and
\* the render of a visualize timer takes the application's flag.
C20_RendererFollowsApp ==
    /\ [](currentData # "null" => rendererIsColumnView = appIsColumnView)
    /\ [][currentData = "null" /\ toggleActive' # toggleActive =>
             /\ appIsColumnView' = ~appIsColumnView
             /\ UNCHANGED <<rendererIsColumnView, currentData, loading, drawn,
                            visualizeTimers, renderTimers>>]_vars
    /\ [][visualizeTimers' < visualizeTimers =>
             /\ currentData' # "null"
             /\ rendererIsColumnView' = appIsColumnView
             /\ appIsColumnView' = appIsColumnView]_vars

\* The renderer holds data and the column view after a single render: the
\* toggle was clicked before the visualize timer fired.
C20_Witness ==
    /\ currentData # "null"
    /\ rendererIsColumnView
    /\ appIsColumnView
    /\ drawn = "none"
    /\ renderTimers = <<"columns">>
=============================================================================
